---------------------------- MODULE Spec2Model ----------------------------
(***************************************************************************)
(* Model of the browser-automation helper layer of express_selenium:       *)
(*   - the selector resolver and the visibility waiter with the            *)
(*     interaction helpers built on it   (src/src/playwright.ts,           *)
(*     src/src/hooks.ts),                                                   *)
(*   - the session teardown closeBrowser (src/src/playwright.ts),          *)
(*   - the recording lifecycle manager   (src/src/recording.ts),           *)
(*   - the Saucedemo login scenario      (src/features/saucedemo,          *)
(*     src/unnamed/part_000).                                              *)
(*                                                                         *)
(* A JavaScript string is modelled as the sequence of its characters, so   *)
(* that splitting, prefixing and sanitising are computed, not assumed.     *)
(***************************************************************************)
EXTENDS Integers, Sequences, FiniteSets, TLC

VARIABLES
    \* ---- element resolution and wait engine ----
    call,              \* the helper invocation in progress (or NoCall)
    pc,                \* its position: idle / waiting / acting / returned / raised
    waits,             \* the page.waitForSelector calls it has issued, in order
    sel,               \* <<s>> once waitUntilVisible returned the selector s, <<>> before
    pageOps,           \* the page actions it has issued, in order
    ret,               \* what it returned: none yet / void / selector / true / false
    \* ---- session teardown ----
    session,           \* state of the page / context / engine instance
    closePc,           \* position inside closeBrowser
    closeAttempts,     \* the close() calls closeBrowser has made and how each ended
    \* ---- recording lifecycle manager ----
    activeRecordings,  \* Map scenarioName -> process (its index in procs)
    recordingPaths,    \* Map scenarioName -> output file
    procs,             \* every ffmpeg process spawned so far
    stopping,          \* stopRecording calls suspended in their grace period
    now,               \* Date.now(), in ms
    platform,          \* os.platform()
    last,              \* the last thing the recording module or the After hook
                       \* did: the call or handler that ran, the branch it took,
                       \* the line it logged
    \* ---- the Saucedemo scenario ----
    titleCall,         \* the repository's getTitle(expectedTerm) in progress
    run                \* the scenario in progress: the statement it is at, the
                       \* engine calls its finished statements issued, the page's
                       \* URL, the page references and the scenario's result

selVars == <<call, pc, waits, sel, pageOps, ret>>
sesVars == <<session, closePc, closeAttempts>>
recVars == <<activeRecordings, recordingPaths, procs, stopping, now, platform, last>>
runVars == <<run>>
titleVars == <<titleCall>>
vars == <<selVars, sesVars, recVars, runVars, titleVars>>

None == "none"

-----------------------------------------------------------------------------
(***************************************************************************)
(* Strings as character sequences.                                         *)
(***************************************************************************)
Min(a, b) == IF a < b THEN a ELSE b

Last(s) == s[Len(s)]

\* String.prototype.includes for a one-character needle
Includes(s, c) == \E i \in DOMAIN s : s[i] = c

\* index of the first occurrence of c in s, 0 when there is none
RECURSIVE IndexFrom(_, _, _)
IndexFrom(s, c, i) ==
    IF i > Len(s) THEN 0
    ELSE IF s[i] = c THEN i
    ELSE IndexFrom(s, c, i + 1)

\* String.prototype.split(sep) without a limit: every piece between separators
RECURSIVE JsSplit(_, _)
JsSplit(s, sep) ==
    LET i == IndexFrom(s, sep, 1)
    IN  IF i = 0 THEN <<s>>
        ELSE <<SubSeq(s, 1, i - 1)>> \o JsSplit(SubSeq(s, i + 1, Len(s)), sep)

\* String.prototype.split(sep, limit): the string is split at EVERY separator
\* and the array of pieces is then truncated to its first `limit` entries.
JsSplitLimit(s, sep, limit) ==
    LET all == JsSplit(s, sep)
    IN  SubSeq(all, 1, Min(limit, Len(all)))

\* the text after the first occurrence of c (the whole remainder)
AfterFirst(s, c) == SubSeq(s, IndexFrom(s, c, 1) + 1, Len(s))
\* the text before the first occurrence of c
BeforeFirst(s, c) == SubSeq(s, 1, IndexFrom(s, c, 1) - 1)

COLON == ":"
P_id    == <<"i", "d">>
P_name  == <<"n", "a", "m", "e">>
P_css   == <<"c", "s", "s">>
P_input == <<"i", "n", "p", "u", "t">>
KnownPrefixes == {P_id, P_name, P_css, P_input}

\* the literal pieces of the template strings
T_hash      == <<"#">>
T_nameOpen  == <<"[", "n", "a", "m", "e", "=", "\"">>
T_nameClose == <<"\"", "]">>
T_input     == <<"i", "n", "p", "u", "t">>

-----------------------------------------------------------------------------
(***************************************************************************)
(* Selector resolver.                                                      *)
(***************************************************************************)
\* selector.includes(':') ? selector.split(':', 2) : ['css', selector]
splitSelector(selector) ==
    IF Includes(selector, COLON)
    THEN JsSplitLimit(selector, COLON, 2)
    ELSE <<P_css, selector>>

toCssSelector(prefix, rawValue) ==
    CASE prefix = P_id    -> T_hash \o rawValue
      [] prefix = P_name  -> T_nameOpen \o rawValue \o T_nameClose
      [] prefix = P_css   -> rawValue
      [] prefix = P_input -> T_input \o T_nameOpen \o rawValue \o T_nameClose
      [] OTHER            -> rawValue

\* const [prefix, rawValue] = splitSelector(selector); toCssSelector(prefix, rawValue)
resolve(selector) ==
    LET parts == splitSelector(selector)
    IN  toCssSelector(parts[1], parts[2])

-----------------------------------------------------------------------------
(***************************************************************************)
(* Inputs of the element engine.                                           *)
(***************************************************************************)
MaxTail == 3
TailChars == {COLON, "x"}

RECURSIVE SeqsUpTo(_, _)
SeqsUpTo(S, n) ==
    IF n = 0 THEN {<<>>}
    ELSE LET shorter == SeqsUpTo(S, n - 1)
         IN  shorter \cup {Append(t, c) : t \in shorter, c \in S}

\* selectors: an optional known prefix word followed by any short text, so that
\* "id:x", "idx" (no colon), "css:x:x", ":x", "x:x" (unknown prefix) all occur
Selectors == {h \o t : h \in KnownPrefixes \cup {<<>>}, t \in SeqsUpTo(TailChars, MaxTail)}

DEFAULT_TIMEOUT == 10000
CustomTimeout == 2500
\* an optional argument is the sequence of the values passed for it: none or one
NoArg == <<>>
\* a parameter with a default value: `timeout = 10000`
withDefault(arg, dflt) == IF arg = NoArg THEN dflt ELSE arg[1]

InteractionHelpers ==
    {"click", "focus", "input", "pressKey", "submitInput", "hover", "check",
     "uncheck", "selectOption", "doubleClick", "rightClick", "clearInput",
     "uploadFile"}
Helpers == InteractionHelpers \cup {"sendInput", "waitUntilVisible"}
\* the helpers that return a boolean and catch the failure of their wait
BooleanChecks == {"isVisible", "isElementPresent"}
\* the helpers that resolve the selector and call page.waitForSelector themselves
DirectWaits == {"waitForElement", "waitUntilHidden"} \cup BooleanChecks
\* the helpers that wait through waitUntilVisible
ViaWaitUntilVisible == Helpers \cup {"isEnabled"}

NoCall == [fn |-> None]

\* The argument lists a helper can be called with: only focus and input take
\* `clear`, only waitUntilVisible is handed a timeout.
Calls ==
    {[fn |-> f, selector |-> s, clear |-> c, timeout |-> t] :
        f \in {"focus", "input"}, s \in Selectors, c \in BOOLEAN, t \in {NoArg}}
    \cup
    {[fn |-> f, selector |-> s, clear |-> FALSE, timeout |-> NoArg] :
        f \in Helpers \ {"focus", "input"}, s \in Selectors}
    \cup
    {[fn |-> f, selector |-> s, clear |-> FALSE, timeout |-> <<CustomTimeout>>] :
        f \in {"waitUntilVisible", "waitForElement", "waitUntilHidden"}, s \in Selectors}
    \cup
    {[fn |-> f, selector |-> s, clear |-> FALSE, timeout |-> NoArg] :
        f \in DirectWaits \cup {"isEnabled"}, s \in Selectors}

-----------------------------------------------------------------------------
(***************************************************************************)
(* Visibility waiter: waitUntilVisible.                                    *)
(***************************************************************************)
\* The selectors waitUntilVisible waits on, in order; each one is waited on
\* only when the wait on the one before it was rejected, and the rejection of
\* the last one propagates to the caller.
waitCandidatesRetryAll(selector) ==
    LET parts == splitSelector(selector)
    IN  <<toCssSelector(parts[1], parts[2]), T_input \o T_hash \o parts[2]>>

waitCandidates(selector) ==
    LET parts    == splitSelector(selector)
        prefix   == parts[1]
        rawValue == parts[2]
    IN  IF prefix = P_input
        THEN <<T_input \o T_nameOpen \o rawValue \o T_nameClose,
               T_input \o T_hash \o rawValue>>
        ELSE <<toCssSelector(prefix, rawValue)>>

\* page.waitForSelector(sel, { state, timeout })
elementWait(s, state, timeout) == [sel |-> s, state |-> state, timeout |-> timeout]

\* page.waitForSelector(sel, { state: 'visible', timeout })
visibleWait(s, timeout) == elementWait(s, "visible", timeout)

CHECK_TIMEOUT == 5000

\* the state a helper waits for
waitStateOf(fn) ==
    CASE fn \in {"waitForElement", "isElementPresent"} -> "attached"
      [] fn = "waitUntilHidden"                        -> "hidden"
      [] OTHER                                         -> "visible"

\* the timeout a call hands to page.waitForSelector
waitTimeoutOf(c) ==
    IF c.fn \in BooleanChecks THEN CHECK_TIMEOUT
    ELSE withDefault(c.timeout, DEFAULT_TIMEOUT)

\* the selectors a call waits on, in order
candidatesOf(c) ==
    IF c.fn \in DirectWaits THEN <<resolve(c.selector)>> ELSE waitCandidates(c.selector)

\* does the helper catch the rejection of its wait (and return false)?
catchesNothing(fn) == FALSE

catchesWaitFailure(fn) == fn \in BooleanChecks

\* what a helper returns when it runs to its end
returnOf(fn) ==
    CASE fn \in {"waitUntilVisible", "waitForElement"} -> "selector"
      [] fn \in BooleanChecks                          -> "true"
      [] OTHER                                         -> "void"

PageOp(op, s, arg) == [op |-> op, sel |-> s, arg |-> arg]

\* The page actions a helper issues, in order, once waitUntilVisible returned s.
helperOpsOnResolved(c, s) ==
    LET css == resolve(c.selector)
    IN  IF c.fn = "waitUntilVisible" THEN <<>> ELSE <<PageOp("click", css, None)>>

helperOps(c, s) ==
    CASE c.fn = "click"        -> <<PageOp("click", s, None)>>
      [] c.fn = "focus"        -> <<PageOp("focus", s, None)>>
                                  \o (IF c.clear THEN <<PageOp("fill", s, "")>> ELSE <<>>)
      [] c.fn = "input"        -> IF c.clear THEN <<PageOp("fill", s, "value")>>
                                  ELSE <<PageOp("type", s, "value")>>
      [] c.fn = "sendInput"    -> <<PageOp("type", s, "value")>>
      [] c.fn = "pressKey"     -> <<PageOp("press", s, "mapped")>>
      [] c.fn = "submitInput"  -> <<PageOp("press", s, "Enter")>>
      [] c.fn = "hover"        -> <<PageOp("hover", s, None)>>
      [] c.fn = "check"        -> <<PageOp("check", s, None)>>
      [] c.fn = "uncheck"      -> <<PageOp("uncheck", s, None)>>
      [] c.fn = "selectOption" -> <<PageOp("selectOption", s, "value")>>
      [] c.fn = "doubleClick"  -> <<PageOp("dblclick", s, None)>>
      [] c.fn = "rightClick"   -> <<PageOp("click", s, "right")>>
      [] c.fn = "clearInput"   -> <<PageOp("fill", s, "")>>
      [] c.fn = "uploadFile"   -> <<PageOp("setInputFiles", s, "filePath")>>
      [] c.fn = "isEnabled"    -> <<PageOp("isDisabled", s, None)>>
      [] c.fn \in DirectWaits \cup {"waitUntilVisible"} -> <<>>

\* A helper is called: it issues its first wait (through waitUntilVisible, or
\* itself).
Invoke(c) ==
    /\ pc = "idle"
    /\ call' = c
    /\ waits' = <<elementWait(candidatesOf(c)[1], waitStateOf(c.fn), waitTimeoutOf(c))>>
    /\ sel' = <<>>
    /\ pageOps' = <<>>
    /\ ret' = None
    /\ pc' = "waiting"
    /\ UNCHANGED <<sesVars, recVars, runVars, titleVars>>

\* The pending wait is fulfilled: the selector just waited on is the helper's
\* selector from here on, and the helper issues its first page action on it or
\* returns.
WaitForSelectorResolves ==
    /\ pc = "waiting"
    /\ LET s   == Last(waits).sel
           ops == helperOps(call, s)
       IN  /\ sel' = <<s>>
           /\ IF ops = <<>>
              THEN pc' = "returned" /\ pageOps' = pageOps /\ ret' = returnOf(call.fn)
              ELSE pc' = "acting" /\ pageOps' = <<ops[1]>> /\ ret' = ret
    /\ UNCHANGED <<call, waits, sesVars, recVars, runVars, titleVars>>

\* The pending wait is rejected (timeout): the next candidate is waited on, or,
\* when there is none, the rejection propagates out of the helper, unless the
\* helper catches it and returns false.
WaitForSelectorRejects ==
    /\ pc = "waiting"
    /\ LET cands == candidatesOf(call)
       IN  IF Len(waits) < Len(cands)
           THEN /\ waits' = Append(waits, elementWait(cands[Len(waits) + 1],
                                                      Last(waits).state,
                                                      Last(waits).timeout))
                /\ pc' = pc
                /\ ret' = ret
           ELSE /\ waits' = waits
                /\ IF catchesWaitFailure(call.fn)
                   THEN pc' = "returned" /\ ret' = "false"
                   ELSE pc' = "raised" /\ ret' = ret
    /\ UNCHANGED <<call, sel, pageOps, sesVars, recVars, runVars, titleVars>>

\* The page action in flight completes: the helper issues its next one or
\* returns; `answer` is what page.isDisabled answered, for isEnabled.
PageOpResolves(answer) ==
    /\ pc = "acting"
    /\ LET ops == helperOps(call, sel[1])
       IN  IF Len(pageOps) < Len(ops)
           THEN pageOps' = Append(pageOps, ops[Len(pageOps) + 1]) /\ pc' = pc /\ ret' = ret
           ELSE /\ pageOps' = pageOps
                /\ pc' = "returned"
                /\ ret' = IF call.fn = "isEnabled"
                          THEN (IF answer THEN "false" ELSE "true")
                          ELSE returnOf(call.fn)
    /\ UNCHANGED <<call, waits, sel, sesVars, recVars, runVars, titleVars>>

\* The page action in flight is rejected: the rejection propagates.
PageOpRejects ==
    /\ pc = "acting"
    /\ pc' = "raised"
    /\ UNCHANGED <<call, waits, sel, pageOps, ret, sesVars, recVars, runVars, titleVars>>

\* The caller has taken the helper's result or error and goes on.
Settle ==
    /\ pc \in {"returned", "raised"}
    /\ pc' = "idle"
    /\ call' = NoCall
    /\ waits' = <<>>
    /\ sel' = <<>>
    /\ pageOps' = <<>>
    /\ ret' = None
    /\ UNCHANGED <<sesVars, recVars, runVars, titleVars>>

-----------------------------------------------------------------------------
(***************************************************************************)
(* Session lifecycle: openBrowser / closeBrowser.                          *)
(***************************************************************************)
W_chromium == <<"c", "h", "r", "o", "m", "i", "u", "m">>
W_firefox  == <<"f", "i", "r", "e", "f", "o", "x">>
W_webkit   == <<"w", "e", "b", "k", "i", "t">>
W_true     == <<"t", "r", "u", "e">>
W_false    == <<"f", "a", "l", "s", "e">>

\* String.prototype.toLowerCase on the letters that occur in the inputs
lowerChar(c) ==
    CASE c = "F" -> "f"
      [] c = "W" -> "w"
      [] c = "C" -> "c"
      [] OTHER   -> c
toLowerCase(s) == [i \in DOMAIN s |-> lowerChar(s[i])]

\* a ?? b on optional values (<<>> is undefined): only undefined falls through,
\* an empty string does not
Coalesce(a, b) == IF a = <<>> THEN b ELSE a

\* an environment variable is unset (<<>>) or set to a string (<<value>>)
BrowserValues ==
    {<<>>, <<<<>>>>, <<W_firefox>>, <<<<"F">> \o SubSeq(W_firefox, 2, 7)>>,
     <<W_webkit>>, <<<<"o", "p", "e", "r", "a">>>>}
HeadlessValues ==
    {<<>>, <<W_false>>, <<W_true>>, <<<<"F">> \o SubSeq(W_false, 2, 5)>>, <<<<"0">>>>,
     <<<<>>>>}
Environments ==
    [E2E_BROWSER : BrowserValues, PW_BROWSER : {<<>>, <<W_firefox>>},
     PLAYWRIGHT_BROWSER : {<<>>, <<W_webkit>>}, HEADLESS : HeadlessValues]

getBrowserEngine(env) ==
    LET raw == Coalesce(env.E2E_BROWSER,
                 Coalesce(env.PW_BROWSER,
                   Coalesce(env.PLAYWRIGHT_BROWSER, <<W_chromium>>)))[1]
        val == toLowerCase(raw)
    IN  IF val = W_firefox THEN "firefox"
        ELSE IF val = W_webkit THEN "webkit"
        ELSE "chromium"

\* nothing is set
NoEnv == [E2E_BROWSER |-> <<>>, PW_BROWSER |-> <<>>, PLAYWRIGHT_BROWSER |-> <<>>,
          HEADLESS |-> <<>>]

\* String(process.env.HEADLESS ?? 'true') !== 'false'
headlessOfAnyCase(env) == toLowerCase(Coalesce(env.HEADLESS, <<W_true>>)[1]) # W_false

headlessOf(env) == Coalesce(env.HEADLESS, <<W_true>>)[1] # W_false

\* the resources of the session, what openBrowser gave its caller (handle), the
\* launcher and launch option it used, the environment it read them from and
\* how setViewportSize ended
NoSession ==
    [browser |-> "none", context |-> "none", page |-> "none", meta |-> FALSE,
     handle |-> "none", engine |-> "none", headless |-> TRUE, env |-> NoEnv,
     viewport |-> "none"]

\* openBrowser, with the step at which the engine rejects (or "none"):
\* launch, newContext and newPage propagate their failure, leaving what was
\* opened before it open; a setViewportSize failure is swallowed.
OpenFailures == {"none", "launch", "newContext", "newPage", "setViewportSize"}

openBrowserViewportPropagates(env, failAt) ==
    LET base == [NoSession EXCEPT !.engine = getBrowserEngine(env),
                                  !.headless = headlessOf(env), !.env = env]
    IN  CASE failAt = "launch" ->
               [base EXCEPT !.handle = "raised"]
          [] failAt = "newContext" ->
               [base EXCEPT !.browser = "open", !.handle = "raised"]
          [] failAt = "newPage" ->
               [base EXCEPT !.browser = "open", !.context = "open", !.handle = "raised"]
          [] failAt = "setViewportSize" ->
               [base EXCEPT !.browser = "open", !.context = "open", !.page = "open",
                            !.viewport = "failed", !.handle = "raised"]
          [] OTHER ->
               [base EXCEPT !.browser = "open", !.context = "open", !.page = "open",
                            !.meta = TRUE, !.viewport = "set", !.handle = "page"]

openBrowser(env, failAt) ==
    LET engine   == getBrowserEngine(env)
        headless == headlessOf(env)
        base     == [NoSession EXCEPT !.engine = engine, !.headless = headless,
                                      !.env = env]
    IN  CASE failAt = "launch" ->
               [base EXCEPT !.handle = "raised"]
          [] failAt = "newContext" ->
               [base EXCEPT !.browser = "open", !.handle = "raised"]
          [] failAt = "newPage" ->
               [base EXCEPT !.browser = "open", !.context = "open", !.handle = "raised"]
          [] OTHER ->
               [base EXCEPT !.browser = "open", !.context = "open", !.page = "open",
                            !.meta = TRUE, !.handle = "page",
                            !.viewport = IF failAt = "setViewportSize"
                                         THEN "failed" ELSE "set"]

OpenBrowser(env, failAt) ==
    /\ closePc \in {"idle", "returned"}
    /\ (session.handle # "page" \/ closePc = "returned")
    /\ session' = openBrowser(env, failAt)
    /\ closePc' = "idle"
    /\ closeAttempts' = <<>>
    /\ UNCHANGED <<selVars, recVars, runVars, titleVars>>

\* What closing one resource does to the session: the resources it owns close
\* with it (a context owns its pages, an engine instance its contexts).
closed(s, what) ==
    CASE what = "page"    -> [s EXCEPT !.page = "closed"]
      [] what = "context" -> [s EXCEPT !.page = "closed", !.context = "closed"]
      [] what = "browser" -> [s EXCEPT !.page = "closed", !.context = "closed",
                                       !.browser = "closed"]

\* The test or the engine closes a resource behind closeBrowser's back.
ClosedElsewhere(what) ==
    /\ session.handle = "page"
    /\ session[what] = "open"
    /\ session' = closed(session, what)
    /\ UNCHANGED <<closePc, closeAttempts, selVars, recVars, runVars, titleVars>>

\* closeBrowser(page) is called with the page openBrowser returned.
CloseBrowserCall ==
    /\ session.handle = "page"
    /\ closePc \in {"idle", "returned"}
    /\ closePc' = "page"
    /\ closeAttempts' = <<>>
    /\ UNCHANGED <<session, selVars, recVars, runVars, titleVars>>

\* Where closeBrowser continues after the close() of `what` ended with `outcome`
\* ("ok" or "throw"): every close() sits in its own try { } catch { }.
afterCloseUnguarded(what, outcome) ==
    IF outcome = "throw" THEN "raised"
    ELSE CASE what = "page" -> "context" [] what = "context" -> "browser"
           [] what = "browser" -> "returned"

afterClose(what, outcome) ==
    CASE what = "page"    -> "context"
      [] what = "context" -> "browser"
      [] what = "browser" -> "returned"

\* meta?.context?.close() and meta?.browser?.close() are calls only when the
\* page carries __pwMeta; page.close() is always a call
hasTarget(s, what) == what = "page" \/ s.meta

\* One of the three steps of closeBrowser: close() is called on `what` and is
\* fulfilled or rejected by the engine.
CloseStep(what, outcome) ==
    /\ closePc = what
    /\ IF hasTarget(session, what)
       THEN /\ closeAttempts' = Append(closeAttempts, [what |-> what, outcome |-> outcome])
            /\ session' = IF outcome = "ok" THEN closed(session, what) ELSE session
            /\ closePc' = afterClose(what, outcome)
       ELSE /\ closeAttempts' = closeAttempts
            /\ session' = session
            /\ closePc' = afterClose(what, "ok")
    /\ UNCHANGED <<selVars, recVars, runVars, titleVars>>

-----------------------------------------------------------------------------
(***************************************************************************)
(* Recording lifecycle manager.                                            *)
(***************************************************************************)
MaxProcs == 2        \* processes spawned in one run
MaxStopping == 2     \* stopRecording calls suspended at the same time
MaxNow == 4000       \* the clock stops here
TickMs == 1000       \* granularity of the clock
GRACE_MS == 3000

ScenarioNames == {<<"A", " ", "1">>, <<"A", "_", "1">>}
Platforms == {"darwin", "win32", "linux", "freebsd"}

AlphaNum ==
    {"a", "b", "c", "d", "e", "f", "g", "h", "i", "j", "k", "l", "m", "n", "o", "p",
     "q", "r", "s", "t", "u", "v", "w", "x", "y", "z",
     "A", "B", "C", "D", "E", "F", "G", "H", "I", "J", "K", "L", "M", "N", "O", "P",
     "Q", "R", "S", "T", "U", "V", "W", "X", "Y", "Z",
     "0", "1", "2", "3", "4", "5", "6", "7", "8", "9"}

\* scenarioName.replace(/[^a-z0-9]/gi, '_')
sanitizeSpacesOnly(name) == [i \in DOMAIN name |-> IF name[i] = " " THEN "_" ELSE name[i]]

sanitize(name) == [i \in DOMAIN name |-> IF name[i] \in AlphaNum THEN name[i] ELSE "_"]

\* path.join(RECORDINGS_DIR, `${sanitized}-${Date.now()}.mp4`), kept as its parts
outputFileOf(name, ms) ==
    [dir |-> "recordings", base |-> sanitize(name), ms |-> ms, ext |-> "mp4"]

\* the ffmpeg arguments of a platform, <<>> when the platform is not supported
inputArgsAnyPlatform(plat, outputFile) ==
    CASE plat = "darwin" -> <<[f |-> "avfoundation", i |-> "1:none", out |-> outputFile]>>
      [] plat = "win32"  -> <<[f |-> "gdigrab", i |-> "desktop", out |-> outputFile]>>
      [] OTHER           -> <<[f |-> "x11grab", i |-> ":0.0", out |-> outputFile]>>

inputArgs(plat, outputFile) ==
    CASE plat = "darwin" -> <<[f |-> "avfoundation", i |-> "1:none", out |-> outputFile]>>
      [] plat = "win32"  -> <<[f |-> "gdigrab", i |-> "desktop", out |-> outputFile]>>
      [] plat = "linux"  -> <<[f |-> "x11grab", i |-> ":0.0", out |-> outputFile]>>
      [] OTHER           -> <<>>

\* Map operations on functions
MapHas(m, k) == k \in DOMAIN m
MapSet(m, k, v) == [x \in DOMAIN m \cup {k} |-> IF x = k THEN v ELSE m[x]]
MapDelete(m, k) == [x \in DOMAIN m \ {k} |-> m[x]]
\* Map.get: <<v>>, or <<>> for undefined
MapGet(m, k) == IF k \in DOMAIN m THEN <<m[k]>> ELSE <<>>

getRecordingFile(scenarioName) == MapGet(recordingPaths, scenarioName)

\* what ran (an exported function or an event handler), for which scenario, the
\* branch it took and the console method it logged with (None: it logged nothing)
Did(op, name, branch, log) == [op |-> op, name |-> name, branch |-> branch, log |-> log]
Nothing == Did(None, <<>>, None, None)

\* the first statement of startRecording: is there nothing to do?
alreadyRecordingNever(active, scenarioName) == FALSE

alreadyRecording(active, scenarioName) == MapHas(active, scenarioName)

\* recordingPaths.set(scenarioName, outputFile), the statement after the path is
\* built and before the platform is looked at
registerPathNever(paths, scenarioName, outputFile) == paths

registerPath(paths, scenarioName, outputFile) == MapSet(paths, scenarioName, outputFile)

\* startRecording(scenarioName); `spawned` is what the operating system makes of
\* spawn('ffmpeg', ...): a running process, or one that never starts and will
\* emit 'error'.
StartRecording(scenarioName, spawned) ==
    /\ spawned \in {"running", "failed"}
    /\ IF alreadyRecording(activeRecordings, scenarioName)
       THEN /\ last' = Did("startRecording", scenarioName, "already", None)
            /\ UNCHANGED <<activeRecordings, recordingPaths, procs>>
       ELSE LET outputFile == outputFileOf(scenarioName, now)
                args       == inputArgs(platform, outputFile)
            IN  /\ recordingPaths' = registerPath(recordingPaths, scenarioName, outputFile)
                /\ IF args = <<>>
                   THEN /\ last' = Did("startRecording", scenarioName, "unsupported", "error")
                        /\ UNCHANGED <<activeRecordings, procs>>
                   ELSE /\ Len(procs) < MaxProcs
                        /\ procs' = Append(procs,
                               [name |-> scenarioName, args |-> args[1],
                                status |-> spawned, sigints |-> 0])
                        /\ activeRecordings' =
                               MapSet(activeRecordings, scenarioName, Len(procs) + 1)
                        /\ last' = Did("startRecording", scenarioName, "spawned", None)
    /\ UNCHANGED <<stopping, now, platform, selVars, sesVars, runVars, titleVars>>

\* activeRecordings.get(scenarioName) in stopRecording
registeredProcessOrLast(active, all, scenarioName) ==
    IF MapHas(active, scenarioName) THEN <<active[scenarioName]>>
    ELSE LET mine == {i \in DOMAIN all : all[i].name = scenarioName}
         IN  IF mine = {} THEN <<>> ELSE <<CHOOSE i \in mine : \A j \in mine : j <= i>>

registeredProcess(active, all, scenarioName) == MapGet(active, scenarioName)

\* process.kill('SIGINT')
kill(all, p) == [all EXCEPT ![p].sigints = @ + 1]

\* stopRecording(scenarioName) up to its await: the interrupt is sent and the
\* call is suspended on a GRACE_MS timer; or the warning is logged and the call
\* has completed.
StopRecording(scenarioName) ==
    /\ LET process == registeredProcess(activeRecordings, procs, scenarioName)
       IN  IF process # <<>>
           THEN /\ Len(stopping) < MaxStopping
                /\ procs' = kill(procs, process[1])
                /\ stopping' = Append(stopping,
                       [name |-> scenarioName, process |-> process[1],
                        due |-> now + GRACE_MS])
                /\ last' = Did("stopRecording", scenarioName, "signalled", None)
           ELSE /\ last' = Did("stopRecording", scenarioName, "notfound", "warn")
                /\ UNCHANGED <<procs, stopping>>
    /\ UNCHANGED <<activeRecordings, recordingPaths, now, platform, selVars, sesVars, runVars, titleVars>>

\* the two maps after the grace period of a stopRecording(scenarioName)
finishStopForgetting(maps, scenarioName) ==
    [active |-> MapDelete(maps.active, scenarioName),
     paths  |-> MapDelete(maps.paths, scenarioName)]

finishStop(maps, scenarioName) ==
    [active |-> MapDelete(maps.active, scenarioName), paths |-> maps.paths]

RemoveAt(q, i) == SubSeq(q, 1, i - 1) \o SubSeq(q, i + 1, Len(q))

\* The timer of a suspended stopRecording fires: the call resumes after its await.
GraceElapsed(i) ==
    /\ i \in DOMAIN stopping
    /\ now >= stopping[i].due
    /\ LET maps == finishStop([active |-> activeRecordings, paths |-> recordingPaths],
                              stopping[i].name)
       IN  /\ activeRecordings' = maps.active
           /\ recordingPaths' = maps.paths
    /\ last' = Did("stopRecording", stopping[i].name, "stopped", "log")
    /\ stopping' = RemoveAt(stopping, i)
    /\ UNCHANGED <<procs, now, platform, selVars, sesVars, runVars, titleVars>>

\* A process is "running" once spawned, "recording" once it has reported a
\* frame, "exited" once it has closed; one that could not be spawned is "failed"
\* until its 'error' event is handled and "errored" after.  Each handler logs
\* one line, so the status also tells which lines were logged for the process.

\* recorder.stderr.on('data'): ffmpeg reports 'frame=', the heartbeat is logged
ProcProgress(p) ==
    /\ p \in DOMAIN procs
    /\ procs[p].status \in {"running", "recording"}
    /\ procs' = [procs EXCEPT ![p].status = "recording"]
    /\ UNCHANGED <<activeRecordings, recordingPaths, stopping, now, platform, last,
                   selVars, sesVars, runVars, titleVars>>

\* recorder.on('error'): the process could not be spawned, the error is logged
ProcError(p) ==
    /\ p \in DOMAIN procs
    /\ procs[p].status = "failed"
    /\ procs' = [procs EXCEPT ![p].status = "errored"]
    /\ UNCHANGED <<activeRecordings, recordingPaths, stopping, now, platform, last,
                   selVars, sesVars, runVars, titleVars>>

\* recorder.on('close'): the process has ended (interrupted, crashed or
\* finished), its exit code is logged
ProcClose(p) ==
    /\ p \in DOMAIN procs
    /\ procs[p].status \in {"running", "recording"}
    /\ procs' = [procs EXCEPT ![p].status = "exited"]
    /\ UNCHANGED <<activeRecordings, recordingPaths, stopping, now, platform, last,
                   selVars, sesVars, runVars, titleVars>>

\* time passes
Tick ==
    /\ now + TickMs <= MaxNow
    /\ now' = now + TickMs
    /\ UNCHANGED <<activeRecordings, recordingPaths, procs, stopping, platform,
                   last, selVars, sesVars, runVars, titleVars>>

-----------------------------------------------------------------------------
(***************************************************************************)
(* The recording artifact: its file name, and the After hook's link to it. *)
(***************************************************************************)
MaxName == 2         \* characters in a scenario name
NameChars == {"a", "Z", "9", " ", "."}
NameInputs == SeqsUpTo(NameChars, MaxName)
SupportedPlatforms == {"darwin", "win32", "linux"}

Digits == <<"0", "1", "2", "3", "4", "5", "6", "7", "8", "9">>

\* `${Date.now()}`: the decimal digits of a non-negative integer
RECURSIVE toDecimal(_)
toDecimal(n) ==
    IF n < 10 THEN <<Digits[n + 1]>>
    ELSE toDecimal(n \div 10) \o <<Digits[(n % 10) + 1]>>

\* the last component of the path: `${sanitized}-${Date.now()}.mp4`
fileNameOf(outputFile) ==
    outputFile.base \o <<"-">> \o toDecimal(outputFile.ms) \o <<".">>
        \o <<"m", "p", "4">>

\* what the hook does with an error thrown inside it: catch { console.error }
hookLetsThrough(scenarioName) == Did("After", scenarioName, "raised", None)

hookCatches(scenarioName) == Did("After", scenarioName, "caught", "error")

\* The After hook of a scenario.  The screenshot part (page.screenshot, the
\* driver's screenshot and its file, their attach calls) completes or throws;
\* then the recording link is attached when a path is registered under the
\* scenario's name and the world has an attach, which completes or throws
\* (`attach` is undefined, ok or throw).  Everything is inside one try.
AfterHook(scenarioName, screenshots, attach) ==
    /\ screenshots \in {"ok", "throw"}
    /\ attach \in {"undefined", "ok", "throw"}
    /\ last' = IF screenshots = "throw"
               THEN hookCatches(scenarioName)
               ELSE IF getRecordingFile(scenarioName) # <<>> /\ attach # "undefined"
               THEN IF attach = "throw"
                    THEN hookCatches(scenarioName)
                    ELSE Did("After", scenarioName, "attached", None)
               ELSE Did("After", scenarioName, "omitted", None)
    /\ UNCHANGED <<activeRecordings, recordingPaths, procs, stopping, now, platform,
                   selVars, sesVars, runVars, titleVars>>

\* One run is one scenario: the name of the first call is the name of every
\* later call.
ScenarioOfRun == {n \in NameInputs : last.op = None \/ last.name = n}

-----------------------------------------------------------------------------
(***************************************************************************)
(* The Saucedemo scenario: Given / When / Then and the After hook.         *)
(***************************************************************************)
URL_TIMEOUT == 5000
SAUCEDEMO_URL == "https://www.saucedemo.com/"
INVENTORY_URL == "https://www.saucedemo.com/inventory.html"
BLANK_URL == "about:blank"

S_userName    == P_id \o <<COLON>> \o <<"u", "s", "e", "r", "-", "n", "a", "m", "e">>
S_password    == P_id \o <<COLON>> \o <<"p", "a", "s", "s", "w", "o", "r", "d">>
S_loginButton ==
    P_id \o <<COLON>> \o <<"l", "o", "g", "i", "n", "-", "b", "u", "t", "t", "o", "n">>

\* scenario.pickle.name
SCENARIO_NAME ==
    <<"O", "p", "e", "n", " ", "S", "a", "u", "c", "e", "d", "e", "m", "o", " ",
      "a", "n", "d", " ", "l", "o", "g", "i", "n">>

\* the statements of login(user, pass), in order
loginPasswordFirst ==
    <<[fn |-> "input", selector |-> S_password, clear |-> TRUE, timeout |-> NoArg],
      [fn |-> "input", selector |-> S_userName, clear |-> TRUE, timeout |-> NoArg],
      [fn |-> "click", selector |-> S_loginButton, clear |-> FALSE, timeout |-> NoArg]>>

login ==
    <<[fn |-> "input", selector |-> S_userName, clear |-> TRUE, timeout |-> NoArg],
      [fn |-> "input", selector |-> S_password, clear |-> TRUE, timeout |-> NoArg],
      [fn |-> "click", selector |-> S_loginButton, clear |-> FALSE, timeout |-> NoArg]>>

\* An engine call as the scenario's log keeps it: the method, the selector, the
\* other argument, and the timeout option when one is passed.
WaitEntry(w) ==
    [op |-> "waitForSelector", sel |-> w.sel, arg |-> w.state, timeout |-> <<w.timeout>>]
OpEntry(o) == [op |-> o.op, sel |-> o.sel, arg |-> o.arg, timeout |-> <<>>]
UrlEntry(op, url, timeout) == [op |-> op, sel |-> <<>>, arg |-> url, timeout |-> timeout]

\* the engine calls of one helper invocation: its waits, then its page actions
Entries(ws, ops) ==
    [i \in DOMAIN ws |-> WaitEntry(ws[i])] \o [i \in DOMAIN ops |-> OpEntry(ops[i])]

\* pc is the statement the scenario is at ("none": no scenario is running);
\* stmt the statement of login it is at; page the repository's `page`, current
\* the session module's; failedIn the step that failed.
NoRun ==
    [pc |-> "none", stmt |-> 1, log |-> <<>>, url |-> BLANK_URL, page |-> "undefined",
     current |-> "undefined", result |-> "none", failedIn |-> "none"]

\* a step threw: Cucumber skips the steps after it and runs the After hook
failed(r, step) == [r EXCEPT !.pc = "After", !.result = "failed", !.failedIn = step]

\* Given: startWebDriver() — page = await openBrowser(); setPage(page)
StartWebDriver(env, failAt) ==
    /\ run.pc = "startWebDriver"
    /\ session' = openBrowser(env, failAt)
    /\ run' = IF session'.handle = "page"
              THEN [run EXCEPT !.pc = "openSauceDemo", !.page = "page", !.current = "page"]
              ELSE failed(run, "Given")
    /\ UNCHANGED <<closePc, closeAttempts, selVars, recVars, titleVars>>

\* Given: openSauceDemo() — goTo(page, url), with what page.goto does
OpenSauceDemo(outcome) ==
    /\ run.pc = "openSauceDemo"
    /\ outcome \in {"ok", "throw"}
    /\ LET r == [run EXCEPT !.log = Append(@, UrlEntry("goto", SAUCEDEMO_URL, <<>>))]
       IN  run' = IF outcome = "ok"
                  THEN [r EXCEPT !.pc = "login", !.stmt = 1, !.url = SAUCEDEMO_URL]
                  ELSE failed(r, "Given")
    /\ UNCHANGED <<selVars, sesVars, recVars, titleVars>>

\* When: the statement of login the scenario is at, when no helper is running
LoginStatement == IF run.pc = "login" THEN {login[run.stmt]} ELSE {}

\* When: the helper called by a statement of login has returned or thrown
LoginStatementDone ==
    /\ run.pc = "login"
    /\ pc \in {"returned", "raised"}
    /\ LET r == [run EXCEPT !.log = @ \o Entries(waits, pageOps)]
       IN  run' = IF pc = "raised" THEN failed(r, "When")
                  ELSE IF run.stmt < Len(login) THEN [r EXCEPT !.stmt = @ + 1]
                  ELSE [r EXCEPT !.pc = "verifyInventoryPage"]
    /\ pc' = "idle"
    /\ call' = NoCall
    /\ waits' = <<>>
    /\ sel' = <<>>
    /\ pageOps' = <<>>
    /\ ret' = None
    /\ UNCHANGED <<sesVars, recVars, titleVars>>

\* The application accepts the login and the page arrives at the inventory,
\* before verifyInventoryPage or while it waits.
Navigated ==
    /\ run.pc \in {"verifyInventoryPage", "waitForURL"}
    /\ run.url = SAUCEDEMO_URL
    /\ run' = [run EXCEPT !.url = INVENTORY_URL]
    /\ UNCHANGED <<selVars, sesVars, recVars, titleVars>>

\* Then: verifyInventoryPage() — waitUntilUrl(page, url) calls
\* page.waitForURL(url, { timeout }) with the default timeout
VerifyInventoryPage ==
    /\ run.pc = "verifyInventoryPage"
    /\ run' = [run EXCEPT !.pc = "waitForURL",
                          !.log = Append(@, UrlEntry("waitForURL", INVENTORY_URL,
                                                     <<URL_TIMEOUT>>))]
    /\ UNCHANGED <<selVars, sesVars, recVars, titleVars>>

\* page.waitForURL is fulfilled: the page is at the URL
WaitForURLResolves ==
    /\ run.pc = "waitForURL"
    /\ run.url = INVENTORY_URL
    /\ run' = [run EXCEPT !.pc = "After", !.result = "passed"]
    /\ UNCHANGED <<selVars, sesVars, recVars, titleVars>>

\* page.waitForURL is rejected with a TimeoutError: the timeout has passed and
\* the page is not at the URL
WaitForURLRejects ==
    /\ run.pc = "waitForURL"
    /\ run.url # INVENTORY_URL
    /\ run' = failed(run, "Then")
    /\ UNCHANGED <<selVars, sesVars, recVars, titleVars>>

\* quitWebDriver() — closeBrowser(page) on the repository's page: closeBrowser
\* starts on it, or, with no page, throws on reading its __pwMeta.  Neither
\* page reference is touched.
QuitWebDriver ==
    /\ run.pc # "none"
    /\ closePc \in {"idle", "returned", "raised"}
    /\ closePc' = IF run.page = "page" THEN "page" ELSE "raised"
    /\ closeAttempts' = <<>>
    /\ UNCHANGED <<session, run, selVars, recVars, titleVars>>

\* the scenario whose After hook is due
HookDue == IF run.pc = "After" /\ last.op # "After" THEN {SCENARIO_NAME} ELSE {}

\* The After hook has returned: the scenario, and with one scenario the run, is
\* over.  No step and no hook calls quitWebDriver.
EndRun ==
    /\ run.pc = "After"
    /\ last.op = "After"
    /\ run' = [run EXCEPT !.pc = "ended"]
    /\ UNCHANGED <<selVars, sesVars, recVars, titleVars>>

-----------------------------------------------------------------------------
(***************************************************************************)
(* getTitle(expectedTerm) of the Google repository: a polling loop.        *)
(***************************************************************************)
POLL_TIMEOUT == 10000
POLL_WAIT == 500
MaxTitleDelay == 250   \* ms that page.title() can take
MaxLate == 50          \* ms by which the 500 ms timer can fire late
TitleDelays == {0, MaxTitleDelay}
Lateness == {0, MaxLate}

\* pc: idle / title (page.title() of the loop pending) / wait (the 500 ms timer
\* pending) / finalTitle (page.title() after the loop pending) / returned /
\* raised; elapsed: Date.now() - startTime; polls: the page.title() calls made;
\* ret: the title returned, "matching" (it contains the term) or "other"
NoTitleCall == [pc |-> "idle", elapsed |-> 0, polls |-> 0, ret |-> None]

\* the loop condition: Date.now() - startTime < timeout
windowAlwaysOpen(elapsed) == TRUE

windowOpen(elapsed) == elapsed < POLL_TIMEOUT

\* the statement reached with the loop condition evaluated at `elapsed`
loopOrLeave(elapsed) == IF windowOpen(elapsed) THEN "title" ELSE "finalTitle"

\* getTitle is called: startTime is taken and the loop is entered
GetTitle ==
    /\ titleCall.pc = "idle"
    /\ titleCall' = [titleCall EXCEPT !.pc = loopOrLeave(0), !.elapsed = 0, !.polls = 1]
    /\ UNCHANGED <<selVars, sesVars, recVars, runVars>>

\* page.title() of the loop answers after `delay` ms: the title is returned when
\* it contains the term, else the 500 ms timer is started
TitleResolves(contains, delay) ==
    /\ titleCall.pc = "title"
    /\ titleCall' = [titleCall EXCEPT !.elapsed = @ + delay,
                                      !.pc = IF contains THEN "returned" ELSE "wait",
                                      !.ret = IF contains THEN "matching" ELSE @]
    /\ UNCHANGED <<selVars, sesVars, recVars, runVars>>

\* the timer of wait(500) fires, `late` ms late: the loop condition is evaluated
\* and page.title() is called, inside the loop or after it
WaitElapses(late) ==
    /\ titleCall.pc = "wait"
    /\ titleCall' = [titleCall EXCEPT !.elapsed = @ + POLL_WAIT + late,
                                      !.pc = loopOrLeave(titleCall.elapsed + POLL_WAIT + late),
                                      !.polls = @ + 1]
    /\ UNCHANGED <<selVars, sesVars, recVars, runVars>>

\* page.title() after the loop answers: whatever the title is, it is returned
FinalTitleResolves(contains, delay) ==
    /\ titleCall.pc = "finalTitle"
    /\ titleCall' = [titleCall EXCEPT !.elapsed = @ + delay,
                                      !.pc = "returned",
                                      !.ret = IF contains THEN "matching" ELSE "other"]
    /\ UNCHANGED <<selVars, sesVars, recVars, runVars>>

\* page.title() is rejected by the engine (the page is closed): getTitle raises
\* that error
TitleRejects ==
    /\ titleCall.pc \in {"title", "finalTitle"}
    /\ titleCall' = [titleCall EXCEPT !.pc = "raised", !.ret = "engine error"]
    /\ UNCHANGED <<selVars, sesVars, recVars, runVars>>

-----------------------------------------------------------------------------
(***************************************************************************)
(* Specifications: one per subsystem, the others at rest.                  *)
(***************************************************************************)
\* Nothing has been called yet: no helper invocation, no session, empty maps.
\* os.platform() is fixed for a run.
InitSelector ==
    /\ call = NoCall /\ pc = "idle" /\ waits = <<>> /\ sel = <<>> /\ pageOps = <<>>
    /\ ret = None /\ titleCall = NoTitleCall
    /\ session = NoSession /\ closePc = "idle" /\ closeAttempts = <<>>
    /\ activeRecordings = <<>> /\ recordingPaths = <<>> /\ procs = <<>>
    /\ stopping = <<>> /\ now = 0 /\ last = Nothing
    /\ run = NoRun
    /\ platform = "linux"

InitSession ==
    /\ call = NoCall /\ pc = "idle" /\ waits = <<>> /\ sel = <<>> /\ pageOps = <<>>
    /\ ret = None /\ titleCall = NoTitleCall
    /\ session = NoSession /\ closePc = "idle" /\ closeAttempts = <<>>
    /\ activeRecordings = <<>> /\ recordingPaths = <<>> /\ procs = <<>>
    /\ stopping = <<>> /\ now = 0 /\ last = Nothing
    /\ run = NoRun
    /\ platform = "linux"

\* The three supported platforms differ in the ffmpeg arguments only, so the
\* recording lifecycle is explored on one supported and one unsupported platform.
InitRecording ==
    /\ call = NoCall /\ pc = "idle" /\ waits = <<>> /\ sel = <<>> /\ pageOps = <<>>
    /\ ret = None /\ titleCall = NoTitleCall
    /\ session = NoSession /\ closePc = "idle" /\ closeAttempts = <<>>
    /\ activeRecordings = <<>> /\ recordingPaths = <<>> /\ procs = <<>>
    /\ stopping = <<>> /\ now = 0 /\ last = Nothing
    /\ run = NoRun
    /\ platform \in {"linux", "freebsd"}

SelNext ==
    \/ \E c \in Calls : Invoke(c)
    \/ Settle
    \/ WaitForSelectorResolves
    \/ WaitForSelectorRejects
    \/ \E answer \in BOOLEAN : PageOpResolves(answer)
    \/ PageOpRejects

SesNext ==
    \/ \E env \in Environments, failAt \in OpenFailures : OpenBrowser(env, failAt)
    \/ \E what \in {"page", "context", "browser"} : ClosedElsewhere(what)
    \/ CloseBrowserCall
    \/ \E what \in {"page", "context", "browser"}, outcome \in {"ok", "throw"} :
           CloseStep(what, outcome)

RecNext ==
    \/ \E n \in ScenarioNames, spawned \in {"running", "failed"} : StartRecording(n, spawned)
    \/ \E n \in ScenarioNames : StopRecording(n)
    \/ \E i \in 1..MaxStopping : GraceElapsed(i)
    \/ \E p \in 1..MaxProcs : ProcProgress(p)
    \/ \E p \in 1..MaxProcs : ProcError(p)
    \/ \E p \in 1..MaxProcs : ProcClose(p)
    \/ Tick

\* Starting a recording, for every platform and many scenario names, up to the
\* After hook; nothing is stopped.
InitStart ==
    /\ call = NoCall /\ pc = "idle" /\ waits = <<>> /\ sel = <<>> /\ pageOps = <<>>
    /\ ret = None /\ titleCall = NoTitleCall
    /\ session = NoSession /\ closePc = "idle" /\ closeAttempts = <<>>
    /\ activeRecordings = <<>> /\ recordingPaths = <<>> /\ procs = <<>>
    /\ stopping = <<>> /\ now = 0 /\ last = Nothing
    /\ run = NoRun
    /\ platform \in Platforms

StartNext ==
    \/ \E n \in ScenarioOfRun, spawned \in {"running", "failed"} :
           StartRecording(n, spawned)
    \/ \E n \in ScenarioOfRun, screenshots \in {"ok", "throw"},
          attach \in {"undefined", "ok", "throw"} :
           AfterHook(n, screenshots, attach)
    \/ \E p \in 1..MaxProcs : ProcProgress(p)
    \/ \E p \in 1..MaxProcs : ProcError(p)
    \/ \E p \in 1..MaxProcs : ProcClose(p)
    \/ Tick

\* The scenario `Open Saucedemo and login` is about to run.
InitScenario ==
    /\ call = NoCall /\ pc = "idle" /\ waits = <<>> /\ sel = <<>> /\ pageOps = <<>>
    /\ ret = None /\ titleCall = NoTitleCall
    /\ session = NoSession /\ closePc = "idle" /\ closeAttempts = <<>>
    /\ activeRecordings = <<>> /\ recordingPaths = <<>> /\ procs = <<>>
    /\ stopping = <<>> /\ now = 0 /\ last = Nothing
    /\ run = [NoRun EXCEPT !.pc = "startWebDriver"]
    /\ platform = "linux"

ScenarioNext ==
    \/ \E env \in Environments, failAt \in OpenFailures : StartWebDriver(env, failAt)
    \/ \E outcome \in {"ok", "throw"} : OpenSauceDemo(outcome)
    \/ \E c \in LoginStatement : Invoke(c)
    \/ WaitForSelectorResolves
    \/ WaitForSelectorRejects
    \/ \E answer \in BOOLEAN : PageOpResolves(answer)
    \/ PageOpRejects
    \/ LoginStatementDone
    \/ Navigated
    \/ VerifyInventoryPage
    \/ WaitForURLResolves
    \/ WaitForURLRejects
    \/ \E n \in HookDue, screenshots \in {"ok", "throw"},
          attach \in {"undefined", "ok", "throw"} :
           AfterHook(n, screenshots, attach)
    \/ EndRun

\* The repository's session functions, called by a test: startWebDriver, then
\* quitWebDriver any number of times.
InitDriver ==
    /\ call = NoCall /\ pc = "idle" /\ waits = <<>> /\ sel = <<>> /\ pageOps = <<>>
    /\ ret = None /\ titleCall = NoTitleCall
    /\ session = NoSession /\ closePc = "idle" /\ closeAttempts = <<>>
    /\ activeRecordings = <<>> /\ recordingPaths = <<>> /\ procs = <<>>
    /\ stopping = <<>> /\ now = 0 /\ last = Nothing
    /\ run = [NoRun EXCEPT !.pc = "startWebDriver"]
    /\ platform = "linux"

DriverNext ==
    \/ \E env \in Environments, failAt \in OpenFailures : StartWebDriver(env, failAt)
    \/ QuitWebDriver
    \/ \E what \in {"page", "context", "browser"}, outcome \in {"ok", "throw"} :
           CloseStep(what, outcome)

\* getTitle is about to be called.
InitTitle ==
    /\ call = NoCall /\ pc = "idle" /\ waits = <<>> /\ sel = <<>> /\ pageOps = <<>>
    /\ ret = None /\ titleCall = NoTitleCall
    /\ session = NoSession /\ closePc = "idle" /\ closeAttempts = <<>>
    /\ activeRecordings = <<>> /\ recordingPaths = <<>> /\ procs = <<>>
    /\ stopping = <<>> /\ now = 0 /\ last = Nothing
    /\ run = NoRun
    /\ platform = "linux"

TitleNext ==
    \/ GetTitle
    \/ \E contains \in BOOLEAN, delay \in TitleDelays : TitleResolves(contains, delay)
    \/ \E late \in Lateness : WaitElapses(late)
    \/ \E contains \in BOOLEAN, delay \in TitleDelays : FinalTitleResolves(contains, delay)
    \/ TitleRejects

SpecSelector  == InitSelector /\ [][SelNext]_vars
SpecSession   == InitSession /\ [][SesNext]_vars
SpecRecording == InitRecording /\ [][RecNext]_vars
SpecStart     == InitStart /\ [][StartNext]_vars
SpecScenario  == InitScenario /\ [][ScenarioNext]_vars
SpecDriver    == InitDriver /\ [][DriverNext]_vars
\* the engine answers every page.title() and every timer fires
SpecTitle     == InitTitle /\ [][TitleNext]_vars /\ WF_vars(TitleNext)

-----------------------------------------------------------------------------
(***************************************************************************)
(* Properties: selector resolver and visibility waiter (SpecSelector).     *)
(***************************************************************************)
InputByName(X) == T_input \o T_nameOpen \o X \o T_nameClose
InputById(X)   == T_input \o T_hash \o X

\* C1: resolution maps "id:X" to "#X", "name:X" to [name="X"], "css:X" to X,
\* for every text X after the first ':', and a selector without ':' to itself.
C1_ResolutionMapsPrefixes ==
    call.fn # None =>
        LET s == call.selector
        IN  IF ~Includes(s, COLON) THEN resolve(s) = s
            ELSE LET p == BeforeFirst(s, COLON)
                     X == AfterFirst(s, COLON)
                 IN  /\ p = P_id   => resolve(s) = T_hash \o X
                     /\ p = P_name => resolve(s) = T_nameOpen \o X \o T_nameClose
                     /\ p = P_css  => resolve(s) = X

\* C2: splitSelector splits at the first ':' only: the prefix is the text before
\* it, the raw value is the whole remainder, and nothing of the input is dropped.
C2_SplitAtFirstColonOnly ==
    (call.fn # None /\ Includes(call.selector, COLON)) =>
        LET parts == splitSelector(call.selector)
        IN  /\ parts = <<BeforeFirst(call.selector, COLON), AfterFirst(call.selector, COLON)>>
            /\ parts[1] \o <<COLON>> \o parts[2] = call.selector

\* The two-step order of waitUntilVisible for a selector with prefix input, in
\* terms of candidates built from X: first input[name="X"]; input#X only as a
\* second wait; never a third; the returned selector is the one waited on
\* last; a wait failure reaches the caller only after both waits.
InputFallbackOn(X) ==
    /\ Len(waits) \in {1, 2}
    /\ waits[1].sel = InputByName(X)
    /\ Len(waits) = 2 => waits[2].sel = InputById(X)
    /\ \A i \in DOMAIN waits : waits[i].state = "visible"
    /\ sel # <<>> => sel[1] = Last(waits).sel
    /\ (pc = "raised" /\ sel = <<>>) => Len(waits) = 2

\* C3: for a selector "input:X" waitUntilVisible waits on input[name="X"] first,
\* on input#X only after that wait failed, at most twice in all, returns the
\* candidate whose wait succeeded and fails only when both waits failed.
C3_InputFallback ==
    (call.fn \in ViaWaitUntilVisible /\ Includes(call.selector, COLON)
        /\ BeforeFirst(call.selector, COLON) = P_input)
    => InputFallbackOn(AfterFirst(call.selector, COLON))

\* What does hold of the code: the same order with X the raw value that
\* splitSelector yields (the text between the first and the second ':').
InputFallbackOnRawValue ==
    (call.fn \in ViaWaitUntilVisible /\ splitSelector(call.selector)[1] = P_input)
    => InputFallbackOn(splitSelector(call.selector)[2])

\* C4: for a selector whose prefix is not input, waitUntilVisible issues exactly
\* one wait, on the resolved selector; when that wait fails the call fails at
\* once: no second wait, no other selector, no page action.
C4_SingleWaitNoRetry ==
    (call.fn \in ViaWaitUntilVisible /\ splitSelector(call.selector)[1] # P_input) =>
        /\ Len(waits) = 1
        /\ waits[1].sel = resolve(call.selector)
        /\ waits[1].state = "visible"
        /\ sel # <<>> => sel[1] = resolve(call.selector)
        /\ (pc # "waiting" /\ sel = <<>>) => (pc = "raised" /\ pageOps = <<>>)

\* a call on "id:..." whose only wait was rejected and which has failed
C4_Witness ==
    /\ call.fn \in ViaWaitUntilVisible
    /\ splitSelector(call.selector)[1] = P_id
    /\ pc = "raised"
    /\ sel = <<>>
    /\ Len(waits) = 1

\* C5: every interaction helper resolves the selector, waits for visibility,
\* and only once a wait has completed acts, each of its page actions being on
\* exactly the selector that wait returned; when the wait fails, it never acts.
C5_WaitThenActOnReturned ==
    call.fn \in InteractionHelpers =>
        /\ waits # <<>>
        /\ waits[1].sel = resolve(call.selector)
        /\ \A i \in DOMAIN waits : waits[i].state = "visible"
        /\ sel # <<>> => sel[1] = Last(waits).sel
        /\ pageOps # <<>> => (sel # <<>> /\ \A i \in DOMAIN pageOps : pageOps[i].sel = sel[1])
        /\ pc = "returned" => pageOps # <<>>
        /\ (pc = "raised" /\ sel = <<>>) => pageOps = <<>>

\* a click on "input:x" that fell back to input#x and clicked it
C5_Witness ==
    /\ call.fn = "click"
    /\ call.selector = P_input \o <<COLON, "x">>
    /\ Len(waits) = 2
    /\ pc = "returned"
    /\ pageOps = <<PageOp("click", InputById(<<"x">>), None)>>

-----------------------------------------------------------------------------
(***************************************************************************)
(* Properties: session teardown (SpecSession).                             *)
(***************************************************************************)
CloseOrder == <<"page", "context", "browser">>

\* C6: closeBrowser attempts page, context, engine instance in that order, each
\* attempt made whatever became of the earlier ones, and it never raises.
C6_CloseAllInOrder ==
    /\ closePc # "raised"
    /\ Len(closeAttempts) <= 3
    /\ \A i \in DOMAIN closeAttempts : closeAttempts[i].what = CloseOrder[i]
    /\ closePc = "page"     => Len(closeAttempts) = 0
    /\ closePc = "context"  => Len(closeAttempts) = 1
    /\ closePc = "browser"  => Len(closeAttempts) = 2
    /\ closePc = "returned" => Len(closeAttempts) = 3

\* closeBrowser has returned although closing the page and the context threw,
\* and it did call close() on the engine instance
C6_Witness ==
    /\ closePc = "returned"
    /\ Len(closeAttempts) = 3
    /\ closeAttempts[1].outcome = "throw"
    /\ closeAttempts[2].outcome = "throw"
    /\ closeAttempts[3].what = "browser"
    /\ session.browser = "closed"

-----------------------------------------------------------------------------
(***************************************************************************)
(* Properties: recording lifecycle (SpecRecording).                        *)
(***************************************************************************)
IsStart(n) == \E spawned \in {"running", "failed"} : StartRecording(n, spawned)

\* C7: a startRecording(name) for a name in the active set spawns nothing and
\* changes nothing: the name stays mapped to the same single process and its
\* registered path stays the one the first start assigned.
C7_StartIsIdempotent ==
    [][\A n \in ScenarioNames :
          (MapHas(activeRecordings, n) /\ IsStart(n)) =>
              /\ UNCHANGED <<activeRecordings, recordingPaths, procs, stopping, now, platform>>
              /\ MapHas(activeRecordings', n)
              /\ recordingPaths'[n] = recordingPaths[n]]_vars

\* the second of two successive starts was the no-op: one process, first path
C7_Witness ==
    \E n \in ScenarioNames :
        /\ last = Did("startRecording", n, "already", None)
        /\ MapHas(activeRecordings, n)
        /\ Len(procs) = 1
        /\ recordingPaths[n] = procs[activeRecordings[n]].args.out

\* C8: stopRecording(name) for a name not in the active set logs a warning,
\* signals no process, leaves the active set and the path map as they are and
\* completes (it is not suspended and does not raise).
C8_StopWithoutRecording ==
    [][\A n \in ScenarioNames :
          (~MapHas(activeRecordings, n) /\ StopRecording(n)) =>
              /\ last' = Did("stopRecording", n, "notfound", "warn")
              /\ UNCHANGED <<activeRecordings, recordingPaths, procs, stopping>>]_vars

\* stop was called for a name that had a recording earlier and has none now
C8_Witness ==
    \E n \in ScenarioNames :
        /\ last = Did("stopRecording", n, "notfound", "warn")
        /\ ~MapHas(activeRecordings, n)
        /\ \E p \in DOMAIN procs : procs[p].name = n /\ procs[p].sigints = 1

\* C9: a stopRecording(name) that found a process has signalled it before it
\* waits, and the name is in the active set at every point between that signal
\* and the end of the call's GRACE_MS grace period.
C9_ActiveThroughGrace ==
    \A i \in DOMAIN stopping :
        /\ procs[stopping[i].process].sigints >= 1
        /\ now < stopping[i].due => MapHas(activeRecordings, stopping[i].name)

\* What does hold of the code: a name leaves the active set only when a
\* stopRecording call for it resumes, GRACE_MS or more after that call sent its
\* interrupt.
RemovedOnlyAfterAGrace ==
    [][\A n \in DOMAIN activeRecordings :
          ~MapHas(activeRecordings', n) =>
              \E i \in DOMAIN stopping :
                  /\ stopping[i].name = n
                  /\ now >= stopping[i].due
                  /\ procs[stopping[i].process].sigints >= 1
                  /\ stopping' = RemoveAt(stopping, i)]_vars

\* C10: a registered output path is never removed: no step unregisters a name,
\* stopRecording (before and after its grace period) leaves the path map as it
\* is, only startRecording(name) changes the path of name, and after any
\* startRecording(name) getRecordingFile(name) resolves.
C10_PathsNeverRemoved ==
    [][/\ \A n \in DOMAIN recordingPaths :
              /\ MapHas(recordingPaths', n)
              /\ recordingPaths'[n] # recordingPaths[n] => IsStart(n)
       /\ ((\E n \in ScenarioNames : StopRecording(n))
              \/ (\E i \in DOMAIN stopping : GraceElapsed(i)))
          => recordingPaths' = recordingPaths
       /\ \A n \in ScenarioNames : IsStart(n) => MapGet(recordingPaths', n) # <<>>]_vars

\* start(name) then a completed stop(name): the path start assigned is returned
C10_Witness ==
    \E n \in ScenarioNames :
        /\ last = Did("stopRecording", n, "stopped", "log")
        /\ ~MapHas(activeRecordings, n)
        /\ Len(procs) = 1
        /\ procs[1].name = n
        /\ getRecordingFile(n) = <<procs[1].args.out>>

\* a process that was spawned and has not ended
Alive(p) == procs[p].status \in {"running", "recording"}

\* C11: for each scenario name, at most one capture process spawned for that
\* name is alive (spawned and not yet exited) at any time.
C11_OneAliveProcessPerName ==
    \A n \in ScenarioNames :
        Cardinality({p \in DOMAIN procs : procs[p].name = n /\ Alive(p)}) <= 1

\* C12: once the failure to spawn the capture process has been reported, the
\* scenario is Idle: its name is not in the active set (so that a later
\* startRecording(name) starts a recording).
C12_SpawnFailureLeavesIdle ==
    \A p \in DOMAIN procs :
        procs[p].status = "errored" => ~MapHas(activeRecordings, procs[p].name)

(***************************************************************************)
(* Properties: starting a recording and its artifact (SpecStart).          *)
(***************************************************************************)
\* C13: a startRecording that gets past the guard on a platform other than
\* darwin, win32 or linux logs an error, spawns no process and leaves the name
\* out of the active set; on each of the three it spawns exactly one process,
\* with that platform's arguments and the registered output path as target.
C13_PlatformDecidesSpawn ==
    [][LET n == last'.name
       IN (IsStart(n) /\ ~MapHas(activeRecordings, n)) =>
              IF platform \notin SupportedPlatforms
              THEN /\ last'.log = "error"
                   /\ procs' = procs
                   /\ ~MapHas(activeRecordings', n)
              ELSE /\ Len(procs') = Len(procs) + 1
                   /\ SubSeq(procs', 1, Len(procs)) = procs
                   /\ LET args == procs'[Len(procs')].args
                      IN  /\ args.out = recordingPaths'[n]
                          /\ platform = "darwin" => args.f = "avfoundation" /\ args.i = "1:none"
                          /\ platform = "win32"  => args.f = "gdigrab" /\ args.i = "desktop"
                          /\ platform = "linux"  => args.f = "x11grab" /\ args.i = ":0.0"
      ]_vars

\* on win32 one process was spawned, with gdigrab and the registered path
C13_Witness ==
    /\ platform = "win32" /\ last.op = "startRecording" /\ last.branch = "spawned"
    /\ Len(procs) = 1 /\ procs[1].args.f = "gdigrab"
    /\ procs[1].args.out = recordingPaths[last.name]

\* C14: the registered output path is <recordings-dir>/<sanitized>-<epoch-ms>.mp4,
\* <sanitized> being the name, character by character, with everything that is
\* not a letter or a digit replaced by '_'; before the extension the file name
\* has only alphanumeric characters, '-' and '_'.
C14_OutputPathFormat ==
    \A n \in DOMAIN recordingPaths :
        LET out  == recordingPaths[n]
            file == fileNameOf(out)
            stem == SubSeq(file, 1, Len(file) - 4)
        IN  /\ out.dir = "recordings"
            /\ Len(out.base) = Len(n)
            /\ \A i \in DOMAIN n : out.base[i] = IF n[i] \in AlphaNum THEN n[i] ELSE "_"
            /\ out.ms <= now
            /\ file = out.base \o <<"-">> \o toDecimal(out.ms) \o <<".", "m", "p", "4">>
            /\ \A i \in DOMAIN stem : stem[i] \in AlphaNum \cup {"-", "_"}
            /\ \A i \in DOMAIN toDecimal(out.ms) : toDecimal(out.ms)[i] \in AlphaNum

\* a name with a dot and a capital is registered at 2000 ms
C14_Witness ==
    /\ MapHas(recordingPaths, <<".", "Z">>)
    /\ fileNameOf(recordingPaths[<<".", "Z">>])
           = <<"_", "Z", "-", "2", "0", "0", "0", ".", "m", "p", "4">>

\* no recording of scenario n can have started: the platform is not supported,
\* or every process spawned for n failed to start
CouldNotStart(n) ==
    \/ platform \notin SupportedPlatforms
    \/ /\ \E p \in DOMAIN procs : procs[p].name = n
       /\ \A p \in DOMAIN procs : procs[p].name = n => procs[p].status \in {"failed", "errored"}

\* C15: when the recording of a scenario could not be started, getRecordingFile
\* yields no path for it and the After hook has attached no recording link.
C15_NoArtifactWithoutRecording ==
    \A n \in NameInputs :
        CouldNotStart(n) =>
            /\ getRecordingFile(n) = <<>>
            /\ ~(last.op = "After" /\ last.name = n /\ last.branch = "attached")

(***************************************************************************)
(* Properties: engine selection and launch options (SpecSession).          *)
(***************************************************************************)
\* the values of the three variables that are set and not empty, in precedence
\* order
NonEmptyBrowserValues(env) ==
    SelectSeq(env.E2E_BROWSER \o env.PW_BROWSER \o env.PLAYWRIGHT_BROWSER,
              LAMBDA v : v # <<>>)

\* the engine a value names, compared case-insensitively
EngineNamed(v) ==
    IF toLowerCase(v) = W_firefox THEN "firefox"
    ELSE IF toLowerCase(v) = W_webkit THEN "webkit"
    ELSE "chromium"

\* C16: the engine is the one named by the first non-empty of E2E_BROWSER,
\* PW_BROWSER, PLAYWRIGHT_BROWSER, chromium when there is none or its value is
\* not an engine's name; an empty E2E_BROWSER with PW_BROWSER=firefox selects
\* firefox.
C16_EngineFromFirstNonEmpty ==
    session.handle # "none" =>
        LET set == NonEmptyBrowserValues(session.env)
        IN  session.engine = IF set = <<>> THEN "chromium" ELSE EngineNamed(set[1])

\* C17: openBrowser launches headless for every value of HEADLESS, unset
\* included, except the exact string "false".
C17_HeadlessUnlessFalse ==
    session.handle # "none" =>
        (session.headless <=> session.env.HEADLESS # <<W_false>>)

\* launched headless with HEADLESS=False
C17_Witness ==
    /\ session.handle = "page"
    /\ session.env.HEADLESS = <<<<"F", "a", "l", "s", "e">>>>
    /\ session.headless

\* C18: when setting the viewport failed, openBrowser has still returned the
\* page, with the engine instance and the context recorded on it, and a
\* closeBrowser of that page that has returned has called close() on all three.
C18_ViewportFailureSwallowed ==
    session.viewport = "failed" =>
        /\ session.handle = "page"
        /\ session.meta
        /\ session.page # "none" /\ session.context # "none" /\ session.browser # "none"
        /\ closePc = "returned" =>
               /\ [i \in DOMAIN closeAttempts |-> closeAttempts[i].what] = CloseOrder
               /\ (\A i \in DOMAIN closeAttempts : closeAttempts[i].outcome = "ok")
                      => session.browser = "closed" /\ session.context = "closed"
                             /\ session.page = "closed"

\* the viewport could not be set, and closeBrowser has closed page, context and
\* engine instance
C18_Witness ==
    /\ session.viewport = "failed"
    /\ closePc = "returned"
    /\ \A i \in DOMAIN closeAttempts : closeAttempts[i].outcome = "ok"
    /\ session.page = "closed" /\ session.context = "closed" /\ session.browser = "closed"

(***************************************************************************)
(* Properties: the Saucedemo scenario (SpecScenario).                      *)
(***************************************************************************)
\* C19: a session opened by the step `I have opened Saucedemo` has been
\* destroyed by the end of the run: closeBrowser was invoked for it and has
\* returned.
C19_SessionClosedByEndOfRun ==
    (run.pc = "ended" /\ run.page = "page") => closePc = "returned"

\* every engine call of the scenario so far: those of the finished statements
\* and those of the helper that is running
Trace == run.log \o Entries(waits, pageOps)

IsPrefix(a, b) == Len(a) <= Len(b) /\ SubSeq(b, 1, Len(a)) = a

Visible(css) ==
    [op |-> "waitForSelector", sel |-> css, arg |-> "visible",
     timeout |-> <<DEFAULT_TIMEOUT>>]

ExpectedLoginTrace ==
    <<UrlEntry("goto", SAUCEDEMO_URL, <<>>),
      Visible(T_hash \o <<"u", "s", "e", "r", "-", "n", "a", "m", "e">>),
      OpEntry(PageOp("fill", T_hash \o <<"u", "s", "e", "r", "-", "n", "a", "m", "e">>, "value")),
      Visible(T_hash \o <<"p", "a", "s", "s", "w", "o", "r", "d">>),
      OpEntry(PageOp("fill", T_hash \o <<"p", "a", "s", "s", "w", "o", "r", "d">>, "value")),
      Visible(T_hash \o <<"l", "o", "g", "i", "n", "-", "b", "u", "t", "t", "o", "n">>),
      OpEntry(PageOp("click",
                     T_hash \o <<"l", "o", "g", "i", "n", "-", "b", "u", "t", "t", "o", "n">>,
                     None)),
      UrlEntry("waitForURL", INVENTORY_URL, <<5000>>)>>

\* C20: the login scenario waits for #user-name to be visible and fills it, the
\* same for #password, waits for #login-button and clicks it, then waits
\* 5000 ms for the URL, in this order; once a wait or an action has failed
\* nothing more is issued; the scenario passes only with the page at the
\* inventory URL, and its last step fails only with the page not there.
C20_LoginOrder ==
    /\ [](/\ IsPrefix(Trace, ExpectedLoginTrace)
          /\ run.result = "passed" => Trace = ExpectedLoginTrace /\ run.url = INVENTORY_URL
          /\ run.failedIn = "Then" => Trace = ExpectedLoginTrace /\ run.url # INVENTORY_URL
          /\ run.failedIn = "When" => Len(Trace) \in 2..7)
    /\ [][(pc = "raised" \/ run.result = "failed") => Trace' = Trace]_vars

\* the scenario has passed after all eight engine calls
C20_Witness ==
    /\ run.pc = "ended"
    /\ run.result = "passed"
    /\ Len(run.log) = 8

(***************************************************************************)
(* Properties: waits for other states and boolean checks (SpecSelector).   *)
(***************************************************************************)
\* C21: the timeout handed to page.waitForSelector is the caller's timeout,
\* 10000 ms when there is none, in waitUntilVisible, waitForElement and
\* waitUntilHidden, and 5000 ms in isElementPresent, isEnabled and isVisible.
C21_WaitTimeouts ==
    /\ call.fn \in {"waitUntilVisible", "waitForElement", "waitUntilHidden"} =>
           \A i \in DOMAIN waits :
               waits[i].timeout = IF call.timeout = NoArg THEN 10000 ELSE call.timeout[1]
    /\ call.fn \in {"isElementPresent", "isEnabled", "isVisible"} =>
           \A i \in DOMAIN waits : waits[i].timeout = 5000

\* The same without isEnabled, which waits through waitUntilVisible.
WaitTimeoutsButIsEnabled ==
    /\ call.fn \in {"waitUntilVisible", "waitForElement", "waitUntilHidden", "isEnabled"} =>
           \A i \in DOMAIN waits :
               waits[i].timeout = IF call.timeout = NoArg THEN 10000 ELSE call.timeout[1]
    /\ call.fn \in {"isElementPresent", "isVisible"} =>
           \A i \in DOMAIN waits : waits[i].timeout = 5000

\* C23: for "input:X", waitForElement, waitUntilHidden, isVisible and
\* isElementPresent wait on input[name="X"] and, once that wait has timed out,
\* have waited on input#X too (X being the raw value of the split).
C23_FallbackForEveryState ==
    (call.fn \in DirectWaits /\ splitSelector(call.selector)[1] = P_input) =>
        LET X == splitSelector(call.selector)[2]
        IN  /\ waits[1].sel = InputByName(X)
            /\ (pc # "waiting" /\ sel = <<>>) =>
                   (Len(waits) = 2 /\ waits[2].sel = InputById(X))

\* C24: a selector with a ':' whose text before the first ':' is not id, name,
\* css or input resolves to the whole selector, unchanged.
C24_UnknownPrefixIsPlainCss ==
    (call.fn # None /\ Includes(call.selector, COLON)
        /\ BeforeFirst(call.selector, COLON) \notin KnownPrefixes)
    => resolve(call.selector) = call.selector

\* C25: isVisible and isElementPresent never raise; each issues one wait, for
\* visible, respectively attached, on the resolved selector, and returns true
\* exactly when that wait succeeded, false when it failed.
C25_BooleanChecksNeverRaise ==
    call.fn \in BooleanChecks =>
        /\ pc # "raised"
        /\ waits = <<[sel |-> resolve(call.selector),
                      state |-> IF call.fn = "isVisible" THEN "visible" ELSE "attached",
                      timeout |-> waits[1].timeout]>>
        /\ pageOps = <<>>
        /\ pc = "waiting" => ret = None
        /\ pc = "returned" => /\ ret \in {"true", "false"}
                              /\ ret = "true" <=> sel # <<>>

\* isElementPresent has returned false after its wait timed out
C25_Witness ==
    /\ call.fn = "isElementPresent"
    /\ pc = "returned"
    /\ ret = "false"
    /\ sel = <<>>

(***************************************************************************)
(* Properties: the After hook (SpecStart, SpecScenario).                   *)
(***************************************************************************)
\* C22: the After hook completes normally whatever fails inside it: an error
\* of the screenshot part or of attaching the recording link is caught and
\* logged with console.error, and never leaves the hook.
C22_AfterHookNeverRaises ==
    last.op = "After" =>
        /\ last.branch \in {"attached", "omitted", "caught"}
        /\ last.branch = "caught" <=> last.log = "error"

\* and the hook leaves the scenario's result as the steps made it
AfterHookKeepsResult == [][last' # last => run'.result = run.result]_vars

\* the hook has caught an error although the recording never failed
C22_Witness ==
    /\ last.op = "After" /\ last.branch = "caught" /\ last.log = "error"
    /\ getRecordingFile(last.name) # <<>>
    /\ platform \in SupportedPlatforms

(***************************************************************************)
(* Properties: output paths of the recordings (SpecRecording).             *)
(***************************************************************************)
\* C26: every name that has a process in the active set has a path in the path
\* map, and that path is the output file its process was spawned with.
C26_ActiveHasItsPath ==
    \A n \in DOMAIN activeRecordings :
        /\ MapHas(recordingPaths, n)
        /\ recordingPaths[n] = procs[activeRecordings[n]].args.out

\* a name is recording a second time: its path is the second process's file
C26_Witness ==
    \E n \in DOMAIN activeRecordings :
        /\ activeRecordings[n] = 2
        /\ procs[1].name = n
        /\ procs[1].args.out # procs[2].args.out
        /\ recordingPaths[n] = procs[2].args.out

\* C28: any two capture processes ever spawned, for the same name or for
\* different names, write to different output files.
C28_DistinctOutputFiles ==
    \A p, q \in DOMAIN procs : p # q => procs[p].args.out # procs[q].args.out

(***************************************************************************)
(* Properties: the current-page reference (SpecDriver).                    *)
(***************************************************************************)
\* C27: the session module's page reference refers to the open page after
\* startWebDriver and is undefined after quitWebDriver, so that it never refers
\* to a closed page.
C27_CurrentPageClearedAtTeardown ==
    /\ (session.handle = "page" /\ closePc = "idle") =>
           (run.current = "page" /\ session.page = "open")
    /\ closePc = "returned" => run.current = "undefined"
    /\ run.current = "page" => session.page = "open"

\* What does hold: the reference is set by startWebDriver and stays.
CurrentPageSetAndKept ==
    /\ [](session.handle = "page" => run.current = "page")
    /\ [][run.current = "page" => run'.current = "page"]_vars

(***************************************************************************)
(* Properties: the title poll (SpecTitle).                                 *)
(***************************************************************************)
\* C29: getTitle always terminates and raises no timeout: it polls the title
\* with 500 ms between polls, at most 21 times in all, returns the first polled
\* title that contains the term, and returns a title without the term only once
\* the 10000 ms window has elapsed.
C29_TitlePollTerminates ==
    /\ [](/\ titleCall.polls <= 21
          /\ titleCall.elapsed >= 500 * (titleCall.polls - 1)
          /\ titleCall.pc = "title" => titleCall.elapsed < 10000
          /\ (titleCall.pc = "returned" /\ titleCall.ret = "other") =>
                 titleCall.elapsed >= 10000
          /\ titleCall.pc = "returned" => titleCall.ret \in {"matching", "other"}
          /\ titleCall.pc = "raised" => titleCall.ret = "engine error")
    /\ <>(titleCall.pc \in {"returned", "raised"})

\* the window elapsed after 21 polls without the term, and the title was returned
C29_Witness ==
    /\ titleCall.pc = "returned"
    /\ titleCall.ret = "other"
    /\ titleCall.polls = 21

(***************************************************************************)
(* Properties: overlapping stopRecording calls (SpecRecording).            *)
(***************************************************************************)
\* C30: no spawned capture process is ever left running, never signalled and
\* absent from the active set: a process leaves the active set only through a
\* stopRecording call that sent the interrupt to that process.
C30_NoOrphanProcess ==
    \A p \in DOMAIN procs :
        (Alive(p) /\ procs[p].sigints = 0) =>
            (MapHas(activeRecordings, procs[p].name)
                /\ activeRecordings[procs[p].name] = p)

\* C31: a capture process is sent the interrupt at most once, also when
\* stopRecording is called again for its name while an earlier stopRecording
\* for that name is suspended in its grace period.
C31_InterruptedAtMostOnce ==
    \A p \in DOMAIN procs : procs[p].sigints <= 1

\* What does hold of the code: a process is signalled once by every
\* stopRecording call that found it, so never more often than calls were made
\* for its name while it was registered.
InterruptedOncePerCall ==
    [][\A p \in DOMAIN procs :
          procs'[p].sigints # procs[p].sigints =>
              /\ procs'[p].sigints = procs[p].sigints + 1
              /\ MapGet(activeRecordings, procs[p].name) = <<p>>
              /\ Len(stopping') = Len(stopping) + 1
              /\ stopping'[Len(stopping')].process = p]_vars

\* a stopRecording(n) is suspended and its grace period has not run out
InGrace(n) == \E i \in DOMAIN stopping : stopping[i].name = n /\ now < stopping[i].due

\* C32: a startRecording(name) issued while a stopRecording(name) is inside
\* its grace period spawns no process and registers no new path; when a grace
\* period of name ends the name is not in the active set, and the path
\* registered for it is still the one it had.
C32_StartDuringGraceIsLost ==
    [][/\ \A n \in ScenarioNames :
              (InGrace(n) /\ IsStart(n)) =>
                  UNCHANGED <<activeRecordings, recordingPaths, procs>>
       /\ \A i \in DOMAIN stopping :
              GraceElapsed(i) =>
                  /\ ~MapHas(activeRecordings', stopping[i].name)
                  /\ recordingPaths' = recordingPaths]_vars

\* What does hold of the code: a startRecording(name) is lost in the grace period
\* of a stopRecording(name) as long as no other stopRecording(name) has resumed
\* and removed the name.
StartDuringGraceOfRegisteredIsLost ==
    [][\A n \in ScenarioNames :
          (InGrace(n) /\ MapHas(activeRecordings, n) /\ IsStart(n)) =>
              /\ UNCHANGED <<activeRecordings, recordingPaths, procs>>
              /\ last' = Did("startRecording", n, "already", None)]_vars

(***************************************************************************)
(* Properties: a failed openBrowser (SpecSession).                         *)
(***************************************************************************)
\* C33: openBrowser leaves no partially opened session behind: when it has
\* raised, no engine instance and no context it launched is open.
C33_NoPartialSession ==
    session.handle = "raised" =>
        (session.browser # "open" /\ session.context # "open")

\* What does hold of the code: a failed openBrowser hands nothing to its caller,
\* so closeBrowser is never called for what it left open.
FailedOpenIsNeverClosed ==
    session.handle = "raised" =>
        /\ closePc = "idle"
        /\ closeAttempts = <<>>
        /\ session.page = "none"
        /\ ~session.meta

=============================================================================
